---- MODULE Spec2Model ----
(***************************************************************************)
(* reposcape: budget-aware serialization of a scored repository tree       *)
(* (serializers/base.py, tree.py, compact.py, markdown.py), importance     *)
(* scoring over the reference graph (importance/scoring.py, graph.py) and  *)
(* the building and scoring of the tree (mapper.py, python_ast.py).        *)
(*                                                                         *)
(* Four specifications: Spec (a serializer is called on a tree), ScoreSpec *)
(* (a scorer is called on a graph), GraphSpec (a RustworkxGraph under the  *)
(* calls of its methods) and MapperSpec (RepoMapper analyses a repository  *)
(* and applies importance scores).                                         *)
(*                                                                         *)
(* Conventions of the model                                                *)
(*  - an Optional[int] is None == <<>> or Some(n) == <<n>>;                *)
(*  - importance is kept in tenths (0.3 is 3, 0.7 is 7);                   *)
(*  - a name is its rank in lexicographic order, so that the sort key      *)
(*    (-importance, name) can be compared;                                 *)
(*  - a piece of text (signature, docstring, content) is its size in       *)
(*    estimator units, 0 standing for None or the empty string, which      *)
(*    Python's truth test treats alike; which text it is follows from the  *)
(*    node that owns it;                                                   *)
(*  - an output line is a record naming the node it renders, the blocks    *)
(*    of that node it holds, its prefix and its size.                      *)
(***************************************************************************)
EXTENDS Integers, Sequences, FiniteSets, TLC

VARIABLES
    root,         \* the CodeNode tree handed to serialize
    pc,           \* "ready" before the call, "done" after it
    serializer,   \* which CodeSerializer ran: "tree", "compact", "markdown"
    detail,       \* DetailLevel of the call
    max_depth,    \* Optional[int]
    token_limit,  \* Optional[int]
    lines,        \* the list `lines` that serialize joins into its result
    tokens_used,  \* return value of the outermost _serialize_node
    visits,       \* every call of _serialize_node, in call order
    graph,        \* RustworkxGraph.graph: the rx.PyDiGraph, [nodes, edges]
    node_map,     \* RustworkxGraph.node_map: node id -> rustworkx index
    scorer_pc,    \* "ready" before score is called, "scored" after it
    important_nodes,  \* the focus set handed to score
    weights,      \* the weights mapping handed to score
    raw_scores,   \* `scores` as score hands it to _normalize_scores
    scores,       \* what score returned: node id -> [num, den], the quotient
    scorer,       \* which GraphScorer ran: "reference", "pagerank"
    raised,       \* the exception score ended with, "none" if it returned
    history,      \* the calls made on the RustworkxGraph, with their results
    repo_path,    \* the parts of the repo_path handed to RepoMapper
    listing,      \* what repo_path.glob("**/*") yields, in its order
    root_node,    \* the tree _analyze_repository returned
    warned,       \* the paths warnings.warn was called for, in order
    mapper_pc,    \* "ready", "analyzed" once the tree is built
    calc_result,  \* what importance_calculator.calculate returned last
    setattr_log,  \* addresses of the nodes the last pass set importance on
    passes        \* how many times _calculate_importance has run

serializer_vars == <<root, pc, serializer, detail, max_depth, token_limit,
                     lines, tokens_used, visits>>

scorer_vars == <<graph, node_map, scorer_pc, important_nodes, weights,
                 raw_scores, scores, scorer, raised, history>>

mapper_vars == <<repo_path, listing, root_node, warned, mapper_pc,
                 calc_result, setattr_log, passes>>

vars == <<serializer_vars, scorer_vars, mapper_vars>>

----------------------------------------------------------------------------
(* Bounds of the model *)

\* token_limit ranges over None and 0..MaxLimit
MaxLimit == 12

\* max_depth ranges over None and 0..MaxMaxDepth
MaxMaxDepth == 2

\* an edge of the reference graph weighs 1 (add_edge's default) or
\* MaxEdgeWeight, heavy enough for two light edges to weigh less than one
\* heavy edge
MaxEdgeWeight == 3

\* a RustworkxGraph is followed over at most MaxCalls calls of its methods
MaxCalls == 3

\* _calculate_importance runs at most MaxPasses times on one tree
MaxPasses == 2

----------------------------------------------------------------------------
(* Optional values *)

None == <<>>

Some(n) == <<n>>

\* remaining_tokens -= n, guarded by `is not None` in the code
Minus(opt, n) == IF opt = None THEN None ELSE Some(opt[1] - n)

\* remaining_tokens is not None and remaining_tokens <= 0
Exhausted(opt) == opt # None /\ opt[1] <= 0

----------------------------------------------------------------------------
(* models/nodes.py, models/options.py: the data the serializers read *)

\* NodeType, as the strings "DIRECTORY", "FILE", "CLASS", "FUNCTION", "METHOD",
\* "VARIABLE"
NodeTypes == {"DIRECTORY", "FILE", "CLASS", "FUNCTION", "METHOD", "VARIABLE"}

DetailLevels == {"STRUCTURE", "SIGNATURES", "DOCSTRINGS", "FULL_CODE"}

\* serializers/base.py: thresholds, in tenths
LOW_IMPORTANCE_THRESHOLD == 3
HIGH_IMPORTANCE_THRESHOLD == 7

CodeNode(path, name, node_type, importance, signature, docstring, content, children) ==
    [path |-> path, name |-> name, node_type |-> node_type,
     importance |-> importance, signature |-> signature,
     docstring |-> docstring, content |-> content, children |-> children]

----------------------------------------------------------------------------
(* The trees the serializers are run on.  One repository layout, as       *)
(* RepoMapper._analyze_repository and PythonAstAnalyzer build it: a root  *)
(* directory, files holding functions and classes, classes holding        *)
(* methods, nested directories down to depth 3 and a symbol at depth 4.   *)
(* Names, by lexicographic rank: c=1 f=2 m=3 r=4 u=5 v=6 w=7 x=8 y=9 z=10 *)
(*                                                                         *)
(*   r/                         depth 0                                    *)
(*     x        File            depth 1   content                          *)
(*       f      Function        depth 2   importance iF                    *)
(*       c      Class           depth 2                                    *)
(*         m    Method          depth 3   importance iM                    *)
(*     y/       Directory       depth 1   importance iY                    *)
(*       z/     Directory       depth 2                                    *)
(*         w    File|Directory  depth 3   importance iW                    *)
(*           v  Function        depth 4   importance iM (w a File)         *)
(*         u    File            depth 3                                    *)
(***************************************************************************)

ImpValues == {0, 5, 8}

LowHigh == {0, 8}

Repo(iF, iM, iY, kW, iW) ==
    LET m == CodeNode("x#c.m", 3, "METHOD", iM, 2, 1, 0, <<>>)
        f == CodeNode("x#f", 2, "FUNCTION", iF, 2, 1, 0, <<>>)
        c == CodeNode("x#c", 1, "CLASS", 5, 2, 1, 0, <<m>>)
        x == CodeNode("x", 8, "FILE", 5, 0, 0, 2, <<f, c>>)
        v == CodeNode("y/z/w#v", 6, "FUNCTION", iM, 2, 0, 0, <<>>)
        w == CodeNode("y/z/w", 7, kW, iW, 0, 0, IF kW = "FILE" THEN 1 ELSE 0,
                      IF kW = "FILE" THEN <<v>> ELSE <<>>)
        u == CodeNode("y/z/u", 5, "FILE", 5, 0, 0, 1, <<>>)
        z == CodeNode("y/z", 10, "DIRECTORY", 0, 0, 0, 0, <<w, u>>)
        y == CodeNode("y", 9, "DIRECTORY", iY, 0, 0, 0, <<z>>)
    IN  CodeNode(".", 4, "DIRECTORY", 0, 0, 0, 0, <<x, y>>)

Trees ==
    { Repo(iF, iM, iY, kW, iW) :
        iF \in ImpValues, iM \in LowHigh, iY \in ImpValues,
        kW \in {"FILE", "DIRECTORY"}, iW \in LowHigh }

----------------------------------------------------------------------------
(* sorted(node.children.values(), key=lambda n: (-n.importance, n.name)) *)

\* the key without the negation of importance: ascending importance
KeyLessAscending(a, b) ==
    \/ a.importance < b.importance
    \/ a.importance = b.importance /\ a.name < b.name

\* the sort key of a is strictly smaller than the sort key of b
KeyLess(a, b) ==
    \/ a.importance > b.importance
    \/ a.importance = b.importance /\ a.name < b.name

\* insert n into the sorted sequence s behind every element whose key is not
\* greater: Python's sort is stable
RECURSIVE InsertSorted(_, _)
InsertSorted(s, n) ==
    IF s = <<>> THEN <<n>>
    ELSE IF KeyLess(n, s[1]) THEN <<n>> \o s
    ELSE <<s[1]>> \o InsertSorted(Tail(s), n)

RECURSIVE SortFrom(_, _, _)
SortFrom(children, i, acc) ==
    IF i > Len(children) THEN acc
    ELSE SortFrom(children, i + 1, InsertSorted(acc, children[i]))

\* the children as the mapping holds them: insertion order, no sort
InsertionOrder(children) == children

SortedChildren(children) == SortFrom(children, 1, <<>>)

----------------------------------------------------------------------------
(* serializers/base.py *)

\* CodeSerializer._should_include_node, used by TreeSerializer and
\* CompactSerializer
ShouldIncludeNode(node, current_depth, maxd) ==
    IF maxd # None /\ current_depth > maxd[1] THEN FALSE
    ELSE IF node.importance > HIGH_IMPORTANCE_THRESHOLD THEN TRUE
    ELSE ~(current_depth > 2 /\ node.importance < LOW_IMPORTANCE_THRESHOLD)

\* CodeSerializer._estimate_tokens: the size of a rendered text.  The tokenizer
\* (reposcape.utils.tokens.count_tokens) is a collaborator outside the sources;
\* the model counts one unit per prefix segment, name, separator or fence and
\* the given size of each text block, which Format* record in `size`.
EstimateTokens(text) == text.size

\* a rendered text: the node it renders, which part of the rendering it is
\* ("header", "child_header", "child_signature", "detail"), the blocks it
\* holds in order, its prefix and its size
Text(node, part, blocks, prefix, size) ==
    [owner |-> node.path, part |-> part, blocks |-> blocks,
     prefix |-> prefix, size |-> size]

\* the call log: one entry per call of _serialize_node
Visit(node, depth, remaining) ==
    [path |-> node.path, depth |-> depth, remaining |-> remaining]

\* the accumulated result of the traversal so far
Out(ls, vs) == [lines |-> ls, visits |-> vs]

Result(out, used) ==
    [lines |-> out.lines, visits |-> out.visits, tokens_used |-> used]

\* the line of a DIRECTORY, a FILE or a symbol in tree.py and compact.py:
\* name + "/", name, or the flattened signature when the detail level asks
\* for it and the node has one
NodeLine(node, prefix, det) ==
    IF node.node_type = "DIRECTORY"
    THEN Text(node, "header", <<"name", "/">>, prefix, Len(prefix) + 2)
    ELSE IF node.node_type = "FILE"
    THEN Text(node, "header", <<"name">>, prefix, Len(prefix) + 1)
    ELSE IF det # "STRUCTURE" /\ node.signature # 0
    THEN Text(node, "header", <<"signature_flat">>, prefix,
              Len(prefix) + node.signature)
    ELSE Text(node, "header", <<"name">>, prefix, Len(prefix) + 1)

----------------------------------------------------------------------------
(* serializers/tree.py *)

\* the prefix of a tree line: one segment per level below the root, "    " or
\* "|   " for the ancestors and the connector for the node itself; kept as
\* the flags it is drawn from (TRUE: last child)
TreePrefix(is_last) == Tail(is_last)

RECURSIVE TreeSerializeNode(_, _, _, _, _, _)
RECURSIVE TreeChildren(_, _, _, _, _, _, _, _)

\* TreeSerializer._serialize_node
TreeSerializeNode(node, is_last, det, maxd, remaining, out) ==
    LET depth == Len(is_last) - 1
        entered == Out(out.lines, Append(out.visits, Visit(node, depth, remaining)))
    IN  IF ~ShouldIncludeNode(node, depth, maxd) THEN Result(entered, 0)
        ELSE LET line == NodeLine(node, TreePrefix(is_last), det)
                 used == EstimateTokens(line)
                 rem == Minus(remaining, used)
             IN  IF Exhausted(rem) THEN Result(entered, used)
                 ELSE TreeChildren(SortedChildren(node.children), 1, is_last, det,
                                   maxd, rem,
                                   Out(Append(entered.lines, line), entered.visits),
                                   used)

\* the loop over the sorted children, from the i-th on
TreeChildren(children, i, is_last, det, maxd, remaining, out, used) ==
    IF i > Len(children) THEN Result(out, used)
    ELSE LET is_last_child == (i = Len(children))
             r == TreeSerializeNode(children[i], Append(is_last, is_last_child),
                                    det, maxd, remaining, out)
             rem == Minus(remaining, r.tokens_used)
         IN  IF Exhausted(rem)
             THEN Result(Out(r.lines, r.visits), used + r.tokens_used)
             ELSE TreeChildren(children, i + 1, is_last, det, maxd, rem,
                               Out(r.lines, r.visits), used + r.tokens_used)

\* TreeSerializer.serialize
TreeSerializerSerialize(node, det, maxd, limit) ==
    TreeSerializeNode(node, <<TRUE>>, det, maxd, limit, Out(<<>>, <<>>))

----------------------------------------------------------------------------
(* serializers/compact.py *)

RECURSIVE CompactSerializeNode(_, _, _, _, _, _)
RECURSIVE CompactChildren(_, _, _, _, _, _, _, _)

\* CompactSerializer._serialize_node; the prefix is a sequence of two-space
\* indents, so that len(prefix) // 2 is its length
CompactSerializeNode(node, prefix, det, maxd, remaining, out) ==
    LET depth == Len(prefix)
        entered == Out(out.lines, Append(out.visits, Visit(node, depth, remaining)))
    IN  IF ~ShouldIncludeNode(node, depth, maxd) THEN Result(entered, 0)
        ELSE LET line == NodeLine(node, prefix, det)
                 used == EstimateTokens(line)
                 rem == Minus(remaining, used)
             IN  IF Exhausted(rem) THEN Result(entered, used)
                 ELSE CompactChildren(SortedChildren(node.children), 1,
                                      Append(prefix, "  "), det, maxd, rem,
                                      Out(Append(entered.lines, line), entered.visits),
                                      used)

CompactChildren(children, i, new_prefix, det, maxd, remaining, out, used) ==
    IF i > Len(children) THEN Result(out, used)
    ELSE LET r == CompactSerializeNode(children[i], new_prefix, det, maxd,
                                       remaining, out)
             rem == Minus(remaining, r.tokens_used)
         IN  IF Exhausted(rem)
             THEN Result(Out(r.lines, r.visits), used + r.tokens_used)
             ELSE CompactChildren(children, i + 1, new_prefix, det, maxd, rem,
                                  Out(r.lines, r.visits), used + r.tokens_used)

\* CompactSerializer.serialize
CompactSerializerSerialize(node, det, maxd, limit) ==
    CompactSerializeNode(node, <<>>, det, maxd, limit, Out(<<>>, <<>>))

----------------------------------------------------------------------------
(* serializers/markdown.py *)

\* MarkdownSerializer._should_include_node
MarkdownShouldIncludeNode(node, current_depth, maxd) ==
    IF maxd # None /\ current_depth > maxd[1] THEN FALSE
    ELSE IF node.node_type \in {"DIRECTORY", "FILE"} THEN TRUE
    ELSE IF node.importance > HIGH_IMPORTANCE_THRESHOLD THEN TRUE
    ELSE ~(current_depth > 2 /\ node.importance < LOW_IMPORTANCE_THRESHOLD)

\* prefix = "#" * (depth + 1) + " ", kept as the sequence of its "#"
RECURSIVE MarkdownPrefix(_)
MarkdownPrefix(depth) ==
    IF depth < 0 THEN <<>> ELSE Append(MarkdownPrefix(depth - 1), "#")

\* the header of a node: prefix, the glyph of the node type, the name, and
\* "/" for a directory
MarkdownHeader(node, prefix) ==
    IF node.node_type = "DIRECTORY"
    THEN Text(node, "header", <<"glyph", "name", "/">>, prefix, Len(prefix) + 3)
    ELSE Text(node, "header", <<"glyph", "name">>, prefix, Len(prefix) + 2)

\* child_header = f"{prefix}# {child.name}"
MarkdownChildHeader(child, prefix) ==
    Text(child, "child_header", <<"name">>, Append(prefix, "#"), Len(prefix) + 2)

\* child_content = f"```python\n{child.signature}\n```"
MarkdownChildContent(child) ==
    Text(child, "child_signature", <<"signature">>, <<>>, child.signature + 2)

\* the inline rendering of a file's children: header and signature of each,
\* appended as they come
RECURSIVE MarkdownFileChildren(_, _, _, _, _)
MarkdownFileChildren(children, i, prefix, out, used) ==
    IF i > Len(children) THEN Result(out, used)
    ELSE LET child == children[i]
             child_header == MarkdownChildHeader(child, prefix)
             l1 == Append(out.lines, child_header)
             u1 == used + EstimateTokens(child_header)
             child_content == MarkdownChildContent(child)
         IN  IF child.signature # 0
             THEN MarkdownFileChildren(children, i + 1, prefix,
                                       Out(Append(l1, child_content), out.visits),
                                       u1 + EstimateTokens(child_content))
             ELSE MarkdownFileChildren(children, i + 1, prefix,
                                       Out(l1, out.visits), u1)

\* the list `details` of a node: its signature, its docstring at DOCSTRINGS,
\* its content at FULL_CODE, each of them fenced
MarkdownDetails(node, det) ==
    (IF node.signature # 0 THEN <<"signature">> ELSE <<>>)
    \o (IF det = "DOCSTRINGS" /\ node.docstring # 0 THEN <<"docstring">> ELSE <<>>)
    \o (IF det = "FULL_CODE" /\ node.content # 0 THEN <<"content">> ELSE <<>>)

\* the size of one fenced block of a node
BlockSize(node, block) ==
    2 + (IF block = "signature" THEN node.signature
         ELSE IF block = "docstring" THEN node.docstring
         ELSE node.content)

RECURSIVE BlocksSize(_, _)
BlocksSize(node, blocks) ==
    IF blocks = <<>> THEN 0
    ELSE BlockSize(node, blocks[1]) + BlocksSize(node, Tail(blocks))

\* detail_text = "\n".join(details)
MarkdownDetailText(node, details) ==
    Text(node, "detail", details, <<>>, BlocksSize(node, details))

RECURSIVE MarkdownSerializeNode(_, _, _, _, _, _)
RECURSIVE MarkdownDirChildren(_, _, _, _, _, _, _, _)

\* MarkdownSerializer._serialize_node
MarkdownSerializeNode(node, depth, det, maxd, remaining, out) ==
    LET entered == Out(out.lines, Append(out.visits, Visit(node, depth, remaining)))
    IN  IF ~MarkdownShouldIncludeNode(node, depth, maxd) THEN Result(entered, 0)
        ELSE
        LET prefix == MarkdownPrefix(depth)
            header == MarkdownHeader(node, prefix)
            o1 == Out(Append(entered.lines, header), entered.visits)
            u1 == EstimateTokens(header)
        IN  IF node.node_type = "DIRECTORY"
            THEN MarkdownDirChildren(SortedChildren(node.children), 1, depth, det,
                                     maxd, remaining, o1, u1)
            ELSE IF det = "STRUCTURE" THEN Result(o1, u1)
            ELSE
            LET r == IF node.node_type = "FILE"
                     THEN MarkdownFileChildren(SortedChildren(node.children), 1,
                                               prefix, o1, u1)
                     ELSE Result(o1, u1)
                details == MarkdownDetails(node, det)
                detail_text == MarkdownDetailText(node, details)
            IN  IF details # <<>>
                   /\ (remaining = None
                       \/ remaining[1] >= EstimateTokens(detail_text))
                THEN Result(Out(Append(r.lines, detail_text), r.visits),
                            r.tokens_used + EstimateTokens(detail_text))
                ELSE r

\* the loop over the sorted children of a directory, from the i-th on
MarkdownDirChildren(children, i, depth, det, maxd, remaining, out, used) ==
    IF i > Len(children) THEN Result(out, used)
    ELSE LET r == MarkdownSerializeNode(children[i], depth + 1, det, maxd,
                                        remaining, out)
             rem == Minus(remaining, r.tokens_used)
         IN  IF Exhausted(rem)
             THEN Result(Out(r.lines, r.visits), used + r.tokens_used)
             ELSE MarkdownDirChildren(children, i + 1, depth, det, maxd, rem,
                                      Out(r.lines, r.visits), used + r.tokens_used)

\* MarkdownSerializer.serialize
MarkdownSerializerSerialize(node, det, maxd, limit) ==
    MarkdownSerializeNode(node, 0, det, maxd, limit, Out(<<>>, <<>>))

----------------------------------------------------------------------------
(* The calls *)

Limits == {None} \cup { Some(n) : n \in 0..MaxLimit }

MaxDepths == {None} \cup { Some(n) : n \in 0..MaxMaxDepth }

\* no RepoMapper at work
MapperIdle ==
    /\ repo_path = <<>>
    /\ listing = <<>>
    /\ root_node = <<>>
    /\ warned = <<>>
    /\ mapper_pc = "idle"
    /\ calc_result = <<>>
    /\ setattr_log = <<>>
    /\ passes = 0

\* no serializer at work
SerializerIdle ==
    /\ root = <<>>
    /\ pc = "idle"
    /\ serializer = "none"
    /\ detail = "STRUCTURE"
    /\ max_depth = None
    /\ token_limit = None
    /\ lines = <<>>
    /\ tokens_used = 0
    /\ visits = <<>>

Init ==
    /\ root \in Trees
    /\ pc = "ready"
    /\ serializer = "none"
    /\ detail = "STRUCTURE"
    /\ max_depth = None
    /\ token_limit = None
    /\ lines = <<>>
    /\ tokens_used = 0
    /\ visits = <<>>
    /\ graph = [nodes |-> <<>>, edges |-> <<>>]
    /\ node_map = <<>>
    /\ scorer_pc = "idle"
    /\ important_nodes = {}
    /\ weights = <<>>
    /\ raw_scores = <<>>
    /\ scores = <<>>
    /\ scorer = "none"
    /\ raised = "none"
    /\ history = <<>>
    /\ MapperIdle

\* the state after serialize(root, detail=det, max_depth=maxd, token_limit=limit)
\* returned r
Called(name, det, maxd, limit, r) ==
    /\ pc' = "done"
    /\ serializer' = name
    /\ detail' = det
    /\ max_depth' = maxd
    /\ token_limit' = limit
    /\ lines' = r.lines
    /\ tokens_used' = r.tokens_used
    /\ visits' = r.visits
    /\ UNCHANGED <<root, scorer_vars, mapper_vars>>

TreeSerialize ==
    /\ pc = "ready"
    /\ \E det \in DetailLevels, maxd \in MaxDepths, limit \in Limits :
          Called("tree", det, maxd, limit,
                 TreeSerializerSerialize(root, det, maxd, limit))

CompactSerialize ==
    /\ pc = "ready"
    /\ \E det \in DetailLevels, maxd \in MaxDepths, limit \in Limits :
          Called("compact", det, maxd, limit,
                 CompactSerializerSerialize(root, det, maxd, limit))

MarkdownSerialize ==
    /\ pc = "ready"
    /\ \E det \in DetailLevels, maxd \in MaxDepths, limit \in Limits :
          Called("markdown", det, maxd, limit,
                 MarkdownSerializerSerialize(root, det, maxd, limit))

Next == TreeSerialize \/ CompactSerialize \/ MarkdownSerialize

Spec == Init /\ [][Next]_vars

----------------------------------------------------------------------------
(* What the claims speak about *)

\* every node of the tree below `node` with its depth (root = 0) and parent
RECURSIVE Flatten(_, _, _)
Flatten(node, depth, parent) ==
    {[path |-> node.path, name |-> node.name, node_type |-> node.node_type,
      importance |-> node.importance, docstring |-> node.docstring,
      content |-> node.content, depth |-> depth, parent |-> parent]}
    \cup UNION { Flatten(node.children[i], depth + 1, node.path) :
                   i \in 1..Len(node.children) }

NodeTable == Flatten(root, 0, "")

Info(path) == CHOOSE n \in NodeTable : n.path = path

\* the estimated size of the first n lines of the output
RECURSIVE SumSizes(_, _)
SumSizes(ls, n) == IF n = 0 THEN 0 ELSE SumSizes(ls, n - 1) + ls[n].size

TotalSize == SumSizes(lines, Len(lines))

\* the estimated size of everything rendered for one node
RECURSIVE OwnedSize(_, _, _)
OwnedSize(ls, n, path) ==
    IF n = 0 THEN 0
    ELSE OwnedSize(ls, n - 1, path) + (IF ls[n].owner = path THEN ls[n].size ELSE 0)

Emitted(path) == \E i \in 1..Len(lines) : lines[i].owner = path

StructuralTypes == {"DIRECTORY", "FILE"}

SymbolTypes == {"CLASS", "FUNCTION", "METHOD", "VARIABLE"}

\* C1: with a token_limit L the output's total estimated size exceeds L by no
\* more than the size of the one node whose rendering crossed L, in every
\* serializer.
C1_OverrunBounded ==
    (pc = "done" /\ token_limit # None) =>
        \/ TotalSize <= token_limit[1]
        \/ \E j \in 1..Len(lines) :
              /\ SumSizes(lines, j - 1) <= token_limit[1]
              /\ SumSizes(lines, j) > token_limit[1]
              /\ TotalSize - token_limit[1]
                    <= OwnedSize(lines, Len(lines), lines[j].owner)

\* C2: with token_limit = 0 the output is empty or exactly the root's header
\* line, in every serializer and at every detail level.
C2_ZeroLimitRootOnly ==
    (pc = "done" /\ token_limit = Some(0)) =>
        \/ lines = <<>>
        \/ /\ Len(lines) = 1
           /\ lines[1].owner = root.path
           /\ lines[1].part = "header"

\* C3: once the remaining budget (the limit less everything emitted) is zero
\* or below, no further line is appended for the rest of the call.
C3_NoLineAfterExhaustion ==
    (pc = "done" /\ token_limit # None) =>
        \A j \in 2..Len(lines) : token_limit[1] - SumSizes(lines, j - 1) > 0

\* C4: a Directory or File node within max_depth that is reached while budget
\* remains is emitted whatever its importance and depth; stated for the calls
\* without a token_limit, where budget always remains.
C4_StructuralAlwaysEmitted ==
    (pc = "done" /\ token_limit = None) =>
        \A i \in 1..Len(visits) :
            ( /\ Info(visits[i].path).node_type \in StructuralTypes
              /\ (max_depth = None \/ visits[i].depth <= max_depth[1]) )
            => Emitted(visits[i].path)

\* C5: with max_depth set, no node deeper than max_depth contributes text to
\* the output, in any serializer.
C5_NothingBeyondMaxDepth ==
    (pc = "done" /\ max_depth # None) =>
        \A i \in 1..Len(lines) : Info(lines[i].owner).depth <= max_depth[1]

\* C6: no Class, Function, Method or Variable node deeper than depth 2 with
\* importance below 0.3 appears in the output, in any serializer.
C6_NoDeepLowSymbol ==
    pc = "done" =>
        \A i \in 1..Len(lines) :
            ~ ( /\ Info(lines[i].owner).node_type \in SymbolTypes
                /\ Info(lines[i].owner).depth > 2
                /\ Info(lines[i].owner).importance < LOW_IMPORTANCE_THRESHOLD )

\* two lines of the output render two different children of the same node
SiblingLines(i, j) ==
    /\ lines[i].owner # lines[j].owner
    /\ Info(lines[i].owner).parent = Info(lines[j].owner).parent

\* C7: the emitted children of a node appear in non-increasing order of
\* importance, and children of equal importance in ascending order of name.
C7_SiblingOrder ==
    pc = "done" =>
        \A i \in 1..Len(lines) : \A j \in (i + 1)..Len(lines) :
            SiblingLines(i, j) =>
                \/ Info(lines[i].owner).importance > Info(lines[j].owner).importance
                \/ /\ Info(lines[i].owner).importance = Info(lines[j].owner).importance
                   /\ Info(lines[i].owner).name <= Info(lines[j].owner).name

\* C7 witness: the function f, inserted before the class c and of the same
\* importance, is emitted after c, and y/, of higher importance than x, before
\* x.
C7_Witness ==
    /\ pc = "done"
    /\ Info("x#f").importance = Info("x#c").importance
    /\ Info("y").importance > Info("x").importance
    /\ \E i \in 1..Len(lines) : \E j \in (i + 1)..Len(lines) :
          lines[i].owner = "x#c" /\ lines[j].owner = "x#f"
    /\ \E i \in 1..Len(lines) : \E j \in (i + 1)..Len(lines) :
          lines[i].owner = "y" /\ lines[j].owner = "x"

\* the output holds the given block of the node
HasBlock(path, block) ==
    \E i \in 1..Len(lines) :
        /\ lines[i].owner = path
        /\ \E k \in 1..Len(lines[i].blocks) : lines[i].blocks[k] = block

\* C8: without a token_limit every included node is rendered at the requested
\* level: at DOCSTRINGS the docstring, at FULL_CODE the content, of every
\* emitted node that has one is in the output.
C8_DetailRendered ==
    (pc = "done" /\ token_limit = None) =>
        \A n \in NodeTable :
            Emitted(n.path) =>
                /\ (detail = "DOCSTRINGS" /\ n.docstring # 0)
                      => HasBlock(n.path, "docstring")
                /\ (detail = "FULL_CODE" /\ n.content # 0)
                      => HasBlock(n.path, "content")

\* C9: MarkdownSerializer appends a node's detail block only if the limit less
\* the size of everything emitted before it, the node's header and inline
\* child lines included, is at least the block's size.
C9_DetailFitsBudget ==
    (pc = "done" /\ serializer = "markdown" /\ token_limit # None) =>
        \A j \in 1..Len(lines) :
            lines[j].part = "detail" =>
                token_limit[1] - SumSizes(lines, j - 1) >= lines[j].size

----------------------------------------------------------------------------
(* importance/graph.py: RustworkxGraph.  The rx.PyDiGraph is the sequence *)
(* of its node payloads (index i is position i + 1) and the sequence of   *)
(* its edges [source, target, weight]; PyDiGraph.add_edge always adds an  *)
(* edge, parallel to an existing one if there is one.                     *)

EmptyGraph == [graph |-> [nodes |-> <<>>, edges |-> <<>>], node_map |-> <<>>]

\* add_node without the membership test: a known id gets a new vertex and a
\* new index
AddNodeAgain(g, node_id) ==
    [graph |-> [nodes |-> Append(g.graph.nodes, node_id),
                edges |-> g.graph.edges],
     node_map |-> [k \in (DOMAIN g.node_map) \cup {node_id} |->
                     IF k = node_id THEN Len(g.graph.nodes) ELSE g.node_map[k]]]

\* RustworkxGraph.add_node
AddNode(g, node_id) ==
    IF node_id \in DOMAIN g.node_map THEN g
    ELSE [graph |-> [nodes |-> Append(g.graph.nodes, node_id),
                     edges |-> g.graph.edges],
          node_map |-> g.node_map @@ (node_id :> Len(g.graph.nodes))]

\* RustworkxGraph.add_edge
AddEdge(g, from_id, to_id, weight) ==
    LET g2 == AddNode(AddNode(g, from_id), to_id)
    IN  [graph |-> [nodes |-> g2.graph.nodes,
                    edges |-> Append(g2.graph.edges,
                                     [source |-> g2.node_map[from_id],
                                      target |-> g2.node_map[to_id],
                                      weight |-> weight])],
         node_map |-> g2.node_map]

\* RustworkxGraph.get_nodes
GetNodes(g) == DOMAIN g.node_map

\* RustworkxGraph.get_node_index
GetNodeIndex(g, node_id) == g.node_map[node_id]

\* PyDiGraph.in_edges(idx) and out_edges(idx), as positions in the edge list
InEdges(g, idx) ==
    { k \in 1..Len(g.graph.edges) : g.graph.edges[k].target = idx }

OutEdges(g, idx) ==
    { k \in 1..Len(g.graph.edges) : g.graph.edges[k].source = idx }

----------------------------------------------------------------------------
(* The graphs the scorers are run on: the vertices a, b, c, added in this *)
(* order, and for each of the pairs a->b, b->c, a->c, c->a no edge or one  *)
(* edge of weight 1 or MaxEdgeWeight; on top of that nothing, a second     *)
(* a->b edge (two references to the same target) or a self reference b->b. *)

NodeIds == <<"a", "b", "c">>

CandidatePairs == << <<"a", "b">>, <<"b", "c">>, <<"a", "c">>, <<"c", "a">> >>

RECURSIVE AddNodes(_, _, _)
AddNodes(g, ids, i) ==
    IF i > Len(ids) THEN g ELSE AddNodes(AddNode(g, ids[i]), ids, i + 1)

\* add_edge for every candidate pair the choice gives a weight
RECURSIVE AddEdges(_, _, _)
AddEdges(g, choice, i) ==
    IF i > Len(CandidatePairs) THEN g
    ELSE AddEdges(IF choice[i] = 0 THEN g
                  ELSE AddEdge(g, CandidatePairs[i][1], CandidatePairs[i][2],
                               choice[i]),
                  choice, i + 1)

BuildGraph(choice, extra) ==
    LET g == AddEdges(AddNodes(EmptyGraph, NodeIds, 1), choice, 1)
    IN  IF extra = "parallel" THEN AddEdge(g, "a", "b", 1)
        ELSE IF extra = "self" THEN AddEdge(g, "b", "b", 1)
        ELSE g

\* what a candidate pair gets: 0 for no edge, or the weight of its edge
EdgeChoices == {0, 1, MaxEdgeWeight}

Graphs ==
    { BuildGraph(choice, extra) :
        choice \in [1..Len(CandidatePairs) -> EdgeChoices],
        extra \in {"none", "parallel", "self"} }

----------------------------------------------------------------------------
(* importance/scoring.py.  Floats: every number the scorer meets here is a *)
(* multiple of a power of 1/2, which floating point holds exactly.  The    *)
(* four parameters are kept in halves (1.0 is 2, 0.5 is 1, 2.0 is 4) and a *)
(* score as an integer number of units of 1/Den; a normalized score is the *)
(* pair [num, den] of the division v / max_score.                          *)

\* ReferenceScorer.__init__ defaults, in halves
ref_weight == 2
outref_weight == 1
important_ref_boost == 4
distance_decay == 1

RECURSIVE Pow(_, _)
Pow(b, k) == IF k = 0 THEN 1 ELSE b * Pow(b, k - 1)

\* the longest shortest path has Len(NodeIds) - 1 edges
Den == Pow(2, Len(NodeIds) - 1)

\* the count alone, as if every parameter were 1.0
TimesOne(count, halves) == count * Den

\* count * parameter, in units of 1/Den
Times(count, halves) == (count * halves * Den) \div 2

\* distance_decay ** distance, in units of 1/Den
Decay(distance) == (Pow(distance_decay, distance) * Den) \div Pow(2, distance)

\* the sum of f over a finite set
RECURSIVE Sum(_, _)
Sum(f, S) ==
    IF S = {} THEN 0
    ELSE LET x == CHOOSE y \in S : TRUE IN f[x] + Sum(f, S \ {x})

\* the largest and the smallest element of a non-empty finite set of integers
Max(S) == CHOOSE m \in S : \A y \in S : y <= m

Min(S) == CHOOSE m \in S : \A y \in S : m <= y

\* ReferenceScorer._get_node_id
GetNodeId(g, index) ==
    CHOOSE node_id \in GetNodes(g) : GetNodeIndex(g, node_id) = index

\* rx.dijkstra_shortest_paths(rx_graph, start_idx, weight_fn=float): the paths
\* of least total weight from start_idx.  A path is a sequence of distinct
\* indices joined by edges; among parallel edges the lightest counts.
Indices(g) == 0..(Len(g.graph.nodes) - 1)

EdgeWeights(g, u, v) ==
    { g.graph.edges[k].weight : k \in OutEdges(g, u) \cap InEdges(g, v) }

SimplePaths(g, start, target) ==
    { p \in UNION { [1..n -> Indices(g)] : n \in 2..Len(g.graph.nodes) } :
        /\ p[1] = start
        /\ p[Len(p)] = target
        /\ \A i \in 1..Len(p) : \A j \in 1..Len(p) : p[i] = p[j] => i = j
        /\ \A i \in 1..(Len(p) - 1) : EdgeWeights(g, p[i], p[i + 1]) # {} }

RECURSIVE PathCost(_, _, _)
PathCost(g, p, i) ==
    IF i >= Len(p) THEN 0
    ELSE Min(EdgeWeights(g, p[i], p[i + 1])) + PathCost(g, p, i + 1)

ShortestPaths(g, start, target) ==
    LET ps == SimplePaths(g, start, target)
    IN  { p \in ps : \A q \in ps : PathCost(g, p, 1) <= PathCost(g, q, 1) }

\* `idx in paths`: the result maps every index reachable from the start, the
\* start itself excepted, to its path
InPaths(g, start, idx) == idx # start /\ SimplePaths(g, start, idx) # {}

\* len(paths[idx]) - 1.  Which of several paths of the same least weight the
\* library returns is its own business: `tie` picks the one of fewest or of
\* most edges.
PathDistance(g, start, idx, tie) ==
    LET hops == { Len(p) - 1 : p \in ShortestPaths(g, start, idx) }
    IN  IF tie = "fewest" THEN Min(hops) ELSE Max(hops)

\* ReferenceScorer._calculate_distance_scores
CalculateDistanceScores(g, important, tie) ==
    [node_id \in GetNodes(g) |->
        Sum([start_id \in important |->
                IF InPaths(g, GetNodeIndex(g, start_id), GetNodeIndex(g, node_id))
                THEN Decay(PathDistance(g, GetNodeIndex(g, start_id),
                                        GetNodeIndex(g, node_id), tie))
                ELSE 0],
            important)]

\* GraphScorer._normalize_scores
NormalizeScores(raw) ==
    IF DOMAIN raw = {} THEN <<>>
    ELSE LET max_score == Max({ raw[k] : k \in DOMAIN raw })
         IN  IF max_score <= 0 THEN [k \in DOMAIN raw |-> [num |-> 0, den |-> 1]]
             ELSE [k \in DOMAIN raw |-> [num |-> raw[k], den |-> max_score]]

\* score with the weights applied after the distance scores are added
ReferenceRawScoresLate(g, important, wts, tie) ==
    LET imp == { n \in important : n \in GetNodes(g) }
        in_edges(node_id) == InEdges(g, GetNodeIndex(g, node_id))
        out_edges(node_id) == OutEdges(g, GetNodeIndex(g, node_id))
        important_refs(node_id) ==
            Cardinality({ k \in in_edges(node_id) :
                            GetNodeId(g, g.graph.edges[k].source) \in imp })
        counted(node_id) ==
            Times(Cardinality(in_edges(node_id)), ref_weight)
            + (IF imp # {} THEN Times(important_refs(node_id), important_ref_boost)
               ELSE 0)
            + Times(Cardinality(out_edges(node_id)), outref_weight)
        distance_scores == CalculateDistanceScores(g, imp, tie)
        summed(node_id) ==
            counted(node_id) + (IF imp # {} THEN distance_scores[node_id] ELSE 0)
    IN  [node_id \in GetNodes(g) |->
            IF node_id \in DOMAIN wts THEN summed(node_id) * wts[node_id]
            ELSE summed(node_id)]

\* ReferenceScorer.score up to the call of _normalize_scores: the dictionary
\* `scores` it has built
ReferenceRawScores(g, important, wts, tie) ==
    LET imp == { n \in important : n \in GetNodes(g) }
        w == [k \in (DOMAIN wts) \cap GetNodes(g) |-> wts[k]]
        in_edges(node_id) == InEdges(g, GetNodeIndex(g, node_id))
        out_edges(node_id) == OutEdges(g, GetNodeIndex(g, node_id))
        important_refs(node_id) ==
            Cardinality({ k \in in_edges(node_id) :
                            GetNodeId(g, g.graph.edges[k].source) \in imp })
        counted(node_id) ==
            Times(Cardinality(in_edges(node_id)), ref_weight)
            + (IF imp # {} THEN Times(important_refs(node_id), important_ref_boost)
               ELSE 0)
            + Times(Cardinality(out_edges(node_id)), outref_weight)
        weighted(node_id) ==
            IF node_id \in DOMAIN w THEN counted(node_id) * w[node_id]
            ELSE counted(node_id)
        distance_scores == CalculateDistanceScores(g, imp, tie)
    IN  [node_id \in GetNodes(g) |->
            weighted(node_id)
            + (IF imp # {} THEN distance_scores[node_id] ELSE 0)]

\* ReferenceScorer.score
ReferenceScorerScore(g, important, wts, tie) ==
    NormalizeScores(ReferenceRawScores(g, important, wts, tie))

----------------------------------------------------------------------------
(* The calls of score *)

\* focus sets: empty, vertices of the graph, and a vertex the graph lacks
FocusSets == {{}, {"a"}, {"b"}, {"a", "b"}, {"ghost"}, {"a", "ghost"}}

\* a per-vertex weight: a float of either sign, or zero
WeightValues == {0 - 1, 0, 2}

\* weights: none, or one id (of the graph or not) with a weight
WeightMaps ==
    {<<>>} \cup { (k :> v) : k \in {"a", "b", "c", "ghost"}, v \in WeightValues }

ScoreInit ==
    /\ SerializerIdle
    /\ MapperIdle
    /\ \E g \in Graphs : graph = g.graph /\ node_map = g.node_map
    /\ scorer_pc = "ready"
    /\ important_nodes = {}
    /\ weights = <<>>
    /\ raw_scores = <<>>
    /\ scores = <<>>
    /\ scorer = "none"
    /\ raised = "none"
    /\ history = <<>>

\* the RustworkxGraph object
TheGraph == [graph |-> graph, node_map |-> node_map]

\* the choices the library has: both where some focus vertex of the graph has
\* two lightest paths of different lengths to some vertex, one otherwise
TieBreaks(g, important) ==
    IF \E s \in important \cap GetNodes(g) : \E v \in GetNodes(g) :
          /\ InPaths(g, GetNodeIndex(g, s), GetNodeIndex(g, v))
          /\ PathDistance(g, GetNodeIndex(g, s), GetNodeIndex(g, v), "fewest")
               # PathDistance(g, GetNodeIndex(g, s), GetNodeIndex(g, v), "most")
    THEN {"fewest", "most"}
    ELSE {"fewest"}

ReferenceScore ==
    /\ scorer_pc = "ready"
    /\ \E important \in FocusSets, wts \in WeightMaps :
       \E tie \in TieBreaks(TheGraph, important) :
          /\ important_nodes' = important
          /\ weights' = wts
          /\ raw_scores' = ReferenceRawScores(TheGraph, important, wts, tie)
          /\ scores' = ReferenceScorerScore(TheGraph, important, wts, tie)
    /\ scorer_pc' = "scored"
    /\ scorer' = "reference"
    /\ raised' = "none"
    /\ UNCHANGED <<serializer_vars, mapper_vars, graph, node_map, history>>

\* PageRankScorer.score: `important_nodes and weights`, both non-empty
HasPersonalization(important, wts) == important # {} /\ wts # <<>>

\* graph.get_node_index(node) for a focus vertex the node_map lacks: KeyError
PersonalizationRaises(g, important, wts) ==
    /\ HasPersonalization(important, wts)
    /\ \E node \in important : node \notin DOMAIN g.node_map

\* the personalization handed to rx.pagerank: None, or index -> weight with
\* weights.get(node, 1.0)
Personalization(g, important, wts) ==
    IF HasPersonalization(important, wts)
    THEN Some([idx \in { GetNodeIndex(g, node) : node \in important } |->
                 LET node == GetNodeId(g, idx)
                 IN  IF node \in DOMAIN wts THEN wts[node] ELSE 1])
    ELSE None

\* PageRankScorer.score when nothing is raised.  The numbers rx.pagerank
\* computes are the library's: a score is kept as the term
\* pagerank(graph, personalization)[index], equal terms being equal numbers.
PageRankScorerScore(g, important, wts) ==
    [node_id \in GetNodes(g) |->
        [pagerank |-> Personalization(g, important, wts),
         index |-> GetNodeIndex(g, node_id)]]

PageRankScore ==
    /\ scorer_pc = "ready"
    /\ \E important \in FocusSets, wts \in WeightMaps :
          /\ important_nodes' = important
          /\ weights' = wts
          /\ IF PersonalizationRaises(TheGraph, important, wts)
             THEN raised' = "KeyError" /\ scores' = <<>>
             ELSE /\ raised' = "none"
                  /\ scores' = PageRankScorerScore(TheGraph, important, wts)
    /\ raw_scores' = <<>>
    /\ scorer_pc' = "scored"
    /\ scorer' = "pagerank"
    /\ UNCHANGED <<serializer_vars, mapper_vars, graph, node_map, history>>

ScoreNext == ReferenceScore \/ PageRankScore

ScoreSpec == ScoreInit /\ [][ScoreNext]_vars

\* C10: the non-empty result of ReferenceScorer.score has every value in
\* [0, 1], and some value equal to 1.0 unless every raw score was <= 0, in
\* which case every value is 0.0: for every graph, focus set and weights.
C10_Normalized ==
    (scorer_pc = "scored" /\ scorer = "reference" /\ DOMAIN scores # {}) =>
        /\ \A k \in DOMAIN scores :
              0 <= scores[k].num /\ scores[k].num <= scores[k].den
        /\ IF \A k \in DOMAIN raw_scores : raw_scores[k] <= 0
           THEN \A k \in DOMAIN scores : scores[k].num = 0
           ELSE \E k \in DOMAIN scores : scores[k].num = scores[k].den

\* C10 for weights that are not negative
C10_NormalizedNonNegative ==
    (\A k \in DOMAIN weights : weights[k] >= 0) => C10_Normalized

----------------------------------------------------------------------------
(* Degrees read off the rustworkx graph, for the claims about the scores *)

InDegree(v) ==
    Cardinality({ k \in 1..Len(graph.edges) : graph.edges[k].target = node_map[v] })

OutDegree(v) ==
    Cardinality({ k \in 1..Len(graph.edges) : graph.edges[k].source = node_map[v] })

\* indegree(v) * ref_weight + outdegree(v) * outref_weight, in halves
DegreeScore(v) == InDegree(v) * ref_weight + OutDegree(v) * outref_weight

\* the graph of the example: the single edge a -> b and the isolated vertex c
\* (h -> f and g of the example)
SingleEdgeGraph == BuildGraph([i \in 1..Len(CandidatePairs) |-> IF i = 1 THEN 1 ELSE 0], "none")

\* C11: with an empty focus set and no weights, score returns for every vertex
\* v the quotient of indegree(v) * ref_weight + outdegree(v) * outref_weight by
\* the largest such value over the vertices (0.0 where that largest value is
\* 0); for the single edge a -> b with c isolated: b = 1.0, a = 0.5, c = 0.0.
C11_DegreeFormula ==
    (scorer_pc = "scored" /\ scorer = "reference"
        /\ important_nodes = {} /\ weights = <<>>) =>
        LET top == Max({ DegreeScore(v) : v \in DOMAIN node_map })
        IN  /\ DOMAIN scores = DOMAIN node_map
            /\ \A v \in DOMAIN node_map :
                  IF top > 0
                  THEN scores[v].num * top = DegreeScore(v) * scores[v].den
                  ELSE scores[v].num = 0
            /\ TheGraph = SingleEdgeGraph =>
                  /\ scores["b"].num = scores["b"].den
                  /\ 2 * scores["a"].num = scores["a"].den
                  /\ scores["c"].num = 0

C11_Witness ==
    /\ scorer_pc = "scored" /\ scorer = "reference"
    /\ important_nodes = {} /\ weights = <<>>
    /\ TheGraph = SingleEdgeGraph
    /\ scores["b"].num = scores["b"].den
    /\ 2 * scores["a"].num = scores["a"].den
    /\ scores["c"].num = 0

----------------------------------------------------------------------------
(* importance/graph.py: a RustworkxGraph under the calls of its methods *)

\* the order in which PyDiGraph.out_edges lists the edges of a vertex is the
\* library's: oldest first or newest first
EdgeOrders == {"oldest_first", "newest_first"}

\* get_edges reading the edges that arrive at the vertex
GetEdgesIncoming(g, node_id, order) ==
    IF node_id \notin DOMAIN g.node_map THEN <<>>
    ELSE LET into == InEdges(g, g.node_map[node_id])
         IN  [target_id \in { GetNodeId(g, g.graph.edges[k].source) : k \in into } |->
                g.graph.edges[CHOOSE k \in into :
                    GetNodeId(g, g.graph.edges[k].source) = target_id].weight]

\* RustworkxGraph.get_edges: edges[target_id] = weight for every out edge in
\* the library's order, a later edge to the same target replacing an earlier
GetEdges(g, node_id, order) ==
    IF node_id \notin DOMAIN g.node_map THEN <<>>
    ELSE LET out == OutEdges(g, g.node_map[node_id])
             to(target_id) ==
                 { k \in out : GetNodeId(g, g.graph.edges[k].target) = target_id }
             last(target_id) ==
                 IF order = "oldest_first" THEN Max(to(target_id))
                 ELSE Min(to(target_id))
         IN  [target_id \in { GetNodeId(g, g.graph.edges[k].target) : k \in out } |->
                g.graph.edges[last(target_id)].weight]

\* the ids the calls are made with; "nonexistent" is only ever asked for
ApiIds == {"a", "b"}

QueryIds == ApiIds \cup {"nonexistent"}

ApiWeights == {1, MaxEdgeWeight}

\* one call, as the history keeps it
Call(op, from_id, to_id, weight, result) ==
    [op |-> op, from_id |-> from_id, to_id |-> to_id, weight |-> weight,
     result |-> result]

\* RustworkxGraph(): empty graph, empty node_map
GraphInit ==
    /\ SerializerIdle
    /\ MapperIdle
    /\ graph = EmptyGraph.graph
    /\ node_map = EmptyGraph.node_map
    /\ scorer_pc = "idle"
    /\ important_nodes = {}
    /\ weights = <<>>
    /\ raw_scores = <<>>
    /\ scores = <<>>
    /\ scorer = "none"
    /\ raised = "none"
    /\ history = <<>>

GraphFrame ==
    UNCHANGED <<serializer_vars, mapper_vars, scorer_pc, important_nodes,
                weights, raw_scores, scores, scorer, raised>>

\* graph.add_node(node_id)
GraphAddNode ==
    /\ Len(history) < MaxCalls
    /\ \E node_id \in ApiIds :
          LET g == AddNode(TheGraph, node_id)
          IN  /\ graph' = g.graph
              /\ node_map' = g.node_map
              /\ history' = Append(history, Call("add_node", node_id, "", 0, <<>>))
    /\ GraphFrame

\* graph.add_edge(from_id, to_id, weight)
GraphAddEdge ==
    /\ Len(history) < MaxCalls
    /\ \E from_id \in ApiIds, to_id \in ApiIds, weight \in ApiWeights :
          LET g == AddEdge(TheGraph, from_id, to_id, weight)
          IN  /\ graph' = g.graph
              /\ node_map' = g.node_map
              /\ history' = Append(history,
                                   Call("add_edge", from_id, to_id, weight, <<>>))
    /\ GraphFrame

\* graph.get_edges(node_id): nothing of the object is assigned
GraphGetEdges ==
    /\ Len(history) < MaxCalls
    /\ \E node_id \in QueryIds, order \in EdgeOrders :
          history' = Append(history,
                            Call("get_edges", node_id, "", 0,
                                 GetEdges(TheGraph, node_id, order)))
    /\ UNCHANGED <<graph, node_map>>
    /\ GraphFrame

GraphNext == GraphAddNode \/ GraphAddEdge \/ GraphGetEdges

GraphSpec == GraphInit /\ [][GraphNext]_vars

----------------------------------------------------------------------------
(* What the history says was put into the graph *)

\* the add_edge calls among the first n calls that went from from_id to to_id
EdgeCalls(n, from_id, to_id) ==
    { j \in 1..n : /\ history[j].op = "add_edge"
                   /\ history[j].from_id = from_id
                   /\ history[j].to_id = to_id }

\* the ids the first n calls passed to add_node or used as an end of add_edge
IdsAdded(n) ==
    { history[j].from_id : j \in { i \in 1..n : history[i].op # "get_edges" } }
    \cup { history[j].to_id : j \in { i \in 1..n : history[i].op = "add_edge" } }

\* the sum of the weights of the calls js
WeightSum(js) == Sum([j \in js |-> history[j].weight], js)

\* the edges of the rustworkx graph from from_id to to_id
EdgesBetween(from_id, to_id) ==
    { k \in 1..Len(graph.edges) :
        /\ graph.edges[k].source = node_map[from_id]
        /\ graph.edges[k].target = node_map[to_id] }

\* C12: references from one source to one target make a single edge of the
\* accumulated weight: after add_edge(a, b, w1) and add_edge(a, b, w2) the graph
\* has one a -> b edge, of weight w1 + w2, and get_edges(a)[b] is w1 + w2.
C12_EdgeAccumulation ==
    /\ \A from_id \in ApiIds, to_id \in ApiIds :
          LET js == EdgeCalls(Len(history), from_id, to_id)
          IN  js # {} =>
                /\ Cardinality(EdgesBetween(from_id, to_id)) = 1
                /\ \A k \in EdgesBetween(from_id, to_id) :
                      graph.edges[k].weight = WeightSum(js)
    /\ \A i \in 1..Len(history) :
          history[i].op = "get_edges" =>
             \A to_id \in ApiIds :
                LET js == EdgeCalls(i - 1, history[i].from_id, to_id)
                IN  js # {} =>
                      /\ to_id \in DOMAIN history[i].result
                      /\ history[i].result[to_id] = WeightSum(js)

\* distinct ids have distinct indices, and get_nodes() is what was added
C13_State ==
    /\ \A x \in DOMAIN node_map, y \in DOMAIN node_map :
          x # y => node_map[x] # node_map[y]
    /\ GetNodes(TheGraph) = IdsAdded(Len(history))

\* an id keeps the index it has
C13_Step ==
    \A node_id \in DOMAIN node_map :
       node_id \in DOMAIN node_map' /\ node_map'[node_id] = node_map[node_id]

\* C13: after any sequence of add_node and add_edge calls distinct ids have
\* distinct indices, an id's index never changes once assigned (adding a known
\* id again changes nothing), and get_nodes() is exactly the set of the ids
\* given to add_node or used as an end of add_edge.
C13_NodeIndices == [](C13_State) /\ [][C13_Step]_vars

\* a known id was added again, next to another id
C13_Witness ==
    /\ Len(history) = MaxCalls
    /\ \E i \in 1..Len(history), j \in 1..Len(history) :
          /\ i < j
          /\ history[i].op = "add_node"
          /\ history[j].op = "add_node"
          /\ history[i].from_id = history[j].from_id
    /\ Cardinality(DOMAIN node_map) = 2
    /\ Len(graph.nodes) = 2

\* what get_edges returned is made of the edges added from that id before
C14_State ==
    \A i \in 1..Len(history) :
       history[i].op = "get_edges" =>
          LET n == history[i].from_id
              r == history[i].result
              targets == { to_id \in ApiIds : EdgeCalls(i - 1, n, to_id) # {} }
          IN  /\ DOMAIN r = targets
              /\ targets = {} => r = <<>>
              /\ n \notin IdsAdded(i - 1) => r = <<>>
              /\ \A to_id \in targets :
                    r[to_id] \in { history[j].weight : j \in EdgeCalls(i - 1, n, to_id) }

\* a call of get_edges leaves the graph and the node map as they were
C14_Step ==
    (history' # history /\ history'[Len(history')].op = "get_edges") =>
        /\ graph' = graph
        /\ node_map' = node_map
        /\ GetNodes([graph |-> graph', node_map |-> node_map']) = IdsAdded(Len(history))

\* C14: get_edges(n) returns the mapping from target id to weight of the edges
\* added from n (for a target with several edges from n, the weight of one of
\* them), the empty mapping for a node without outgoing edge and for an id
\* never added, and changes nothing: an unknown id asked for is not in
\* get_nodes() afterwards.
C14_GetEdges == [](C14_State) /\ [][C14_Step]_vars

\* get_edges was asked for a node with an edge and for an id never added
C14_Witness ==
    \E i \in 1..Len(history), j \in 1..Len(history) :
       /\ history[i].op = "get_edges"
       /\ history[i].from_id \in IdsAdded(i - 1)
       /\ history[i].result # <<>>
       /\ history[j].op = "get_edges"
       /\ history[j].from_id = "nonexistent"
       /\ history[j].result = <<>>
       /\ "nonexistent" \notin GetNodes(TheGraph)

----------------------------------------------------------------------------
(* A focus vertex the graph does not have *)

\* what the scorer that ran returns for the focus set F and the weights of the
\* call: the possible results, one for each choice the library has
ResultsFor(F) ==
    IF scorer = "reference"
    THEN { ReferenceScorerScore(TheGraph, F, weights, tie) :
             tie \in TieBreaks(TheGraph, F) }
    ELSE { PageRankScorerScore(TheGraph, F, weights) }

\* C15: a focus vertex x that the graph lacks never makes score fail and never
\* changes its result: score(graph, F \cup {x}, weights) raises nothing and
\* returns what score(graph, F, weights) returns, for ReferenceScorer and for
\* PageRankScorer.
C15_AbsentFocusIgnored ==
    scorer_pc = "scored" =>
        \A x \in important_nodes \ GetNodes(TheGraph) :
           /\ raised = "none"
           /\ scores \in ResultsFor(important_nodes \ {x})

\* C15 for ReferenceScorer alone
C15_ReferenceScorer ==
    scorer = "reference" => C15_AbsentFocusIgnored

----------------------------------------------------------------------------
(* analyzers/python_ast.py and mapper.py: building the tree.               *)
(* A path is the sequence of its parts; str(path) of a file is the parts   *)
(* of repo_path followed by the parts of the path relative to it, and a    *)
(* repo_path of "." has no parts.  A name is a string.  A Python source is *)
(* the sequence of its statements that define something: classes,          *)
(* functions and assignments to a name, each with the statements of its    *)
(* body.  children is the dict's values in insertion order; every key the  *)
(* code uses is the name of the node stored under it.                      *)

Stmt(kind, name, body) == [kind |-> kind, name |-> name, body |-> body]

\* children[node.name] = node: a known key keeps its place
DictSet(children, node) ==
    IF \E i \in 1..Len(children) : children[i].name = node.name
    THEN [i \in 1..Len(children) |->
            IF children[i].name = node.name THEN node ELSE children[i]]
    ELSE Append(children, node)

\* SymbolCollector: generic_visit over the statements stmts[i..] with the
\* dict self.symbols; in_class says whether their parent is a ClassDef.
\* visit_ClassDef collects the body into a dict of its own, visit_FunctionDef
\* and visit_Assign go on with the same dict.  Every node gets self.path.
RECURSIVE Collect(_, _, _, _, _)
Collect(stmts, i, symbols, path, in_class) ==
    IF i > Len(stmts) THEN symbols
    ELSE LET st == stmts[i]
             after ==
                 IF st.kind = "class"
                 THEN DictSet(symbols,
                              CodeNode(path, st.name, "CLASS", 0, 1, 0, 0,
                                       Collect(st.body, 1, <<>>, path, TRUE)))
                 ELSE IF st.kind = "def"
                 THEN Collect(st.body, 1,
                              DictSet(symbols,
                                      CodeNode(path, st.name,
                                               IF in_class THEN "METHOD"
                                               ELSE "FUNCTION",
                                               0, 1, 0, 0, <<>>)),
                              path, FALSE)
                 ELSE DictSet(symbols,
                              CodeNode(path, st.name, "VARIABLE", 0, 1, 0, 0, <<>>))
         IN  Collect(stmts, i + 1, after, path, in_class)

\* PythonAstAnalyzer.analyze_file(path) where it raises nothing: [node]
AnalyzeFile(path, source) ==
    << CodeNode(path, path[Len(path)], "FILE", 0, 0, 0, 1,
                Collect(source, 1, <<>>, path, FALSE)) >>

\* the basic file node of a file no analyzer handles
BasicFile(rel_path) ==
    << CodeNode(rel_path, rel_path[Len(rel_path)], "FILE", 0, 0, 0, 1, <<>>) >>

\* str(UPath(current.path) / part)
JoinPath(path, part) == IF path = <<".">> THEN <<part>> ELSE Append(path, part)

\* the child of current under the key part, created as a Directory if missing
ChildDir(current, part) ==
    IF \E i \in 1..Len(current.children) : current.children[i].name = part
    THEN current.children[CHOOSE i \in 1..Len(current.children) :
                             current.children[i].name = part]
    ELSE CodeNode(JoinPath(current.path, part), part, "DIRECTORY", 0, 0, 0, 0, <<>>)

\* RepoMapper._add_to_tree, from the directory current on: parts are the
\* parent directories still to walk
RECURSIVE AddToTree(_, _, _)
AddToTree(current, parts, nodes) ==
    IF parts = <<>>
    THEN IF nodes # <<>>
         THEN [current EXCEPT !.children = DictSet(@, nodes[1])]
         ELSE current
    ELSE [current EXCEPT !.children =
            DictSet(@, AddToTree(ChildDir(current, parts[1]), Tail(parts), nodes))]

\* all but the last part: rel_path.parent.parts
Parent(rel_path) == SubSeq(rel_path, 1, Len(rel_path) - 1)

\* object.__setattr__(node, "path", str(rel_path)) for every node of the list
SetPath(nodes, rel_path) ==
    [k \in 1..Len(nodes) |-> [nodes[k] EXCEPT !.path = rel_path]]

\* the body of the loop of _analyze_repository for one entry of the listing:
\* acc is [root, warned]
AnalyzeEntry(repo, entry, acc) ==
    IF entry.excluded \/ entry.is_dir THEN acc
    ELSE IF entry.fails
    THEN [root |-> acc.root, warned |-> Append(acc.warned, entry.rel)]
    ELSE LET nodes ==
                 IF entry.python
                 THEN SetPath(AnalyzeFile(repo \o entry.rel, entry.source), entry.rel)
                 ELSE BasicFile(entry.rel)
         IN  [root |-> AddToTree(acc.root, Parent(entry.rel), nodes),
              warned |-> acc.warned]

\* the loop with an exception that leaves it: nothing after the failing file
RECURSIVE AnalyzeFromAbort(_, _, _, _)
AnalyzeFromAbort(repo, ls, i, acc) ==
    IF i > Len(ls) THEN acc
    ELSE IF ~(ls[i].excluded \/ ls[i].is_dir) /\ ls[i].fails
    THEN AnalyzeEntry(repo, ls[i], acc)
    ELSE AnalyzeFromAbort(repo, ls, i + 1, AnalyzeEntry(repo, ls[i], acc))

\* for path in repo_path.glob("**/*"): ...
RECURSIVE AnalyzeFrom(_, _, _, _)
AnalyzeFrom(repo, ls, i, acc) ==
    IF i > Len(ls) THEN acc
    ELSE AnalyzeFrom(repo, ls, i + 1, AnalyzeEntry(repo, ls[i], acc))

\* repo_path.name
RepoName(repo) == IF repo = <<>> THEN "" ELSE repo[Len(repo)]

\* RepoMapper._analyze_repository: the root it returns and the warnings
AnalyzeRepository(repo, ls) ==
    AnalyzeFrom(repo, ls, 1,
                [root |-> CodeNode(<<".">>, RepoName(repo), "DIRECTORY", 0, 0, 0, 0, <<>>),
                 warned |-> <<>>])

----------------------------------------------------------------------------
(* mapper.py: _calculate_importance *)

\* collect_nodes: the nodes below and including the one at addr, parents
\* first, each as its address (the positions to follow from the root)
RECURSIVE CollectNodes(_, _)
CollectNodes(node, addr) ==
    LET RECURSIVE Below(_)
        Below(i) ==
            IF i > Len(node.children) THEN <<>>
            ELSE CollectNodes(node.children[i], Append(addr, i)) \o Below(i + 1)
    IN  <<addr>> \o Below(1)

RECURSIVE NodeAt(_, _)
NodeAt(node, addr) ==
    IF addr = <<>> THEN node ELSE NodeAt(node.children[addr[1]], Tail(addr))

\* scores.get(node.path) or the importance the node has
ScoreOrKeep(node, sc) ==
    IF node.path \in DOMAIN sc THEN sc[node.path] ELSE node.importance

\* scores.get(node.path, 0.0)
ScoreOr0(node, sc) ==
    IF node.path \in DOMAIN sc THEN sc[node.path] ELSE 0

\* object.__setattr__(node, "importance", score) for the node at addr
RECURSIVE SetImportance(_, _, _)
SetImportance(node, addr, sc) ==
    IF addr = <<>> THEN [node EXCEPT !.importance = ScoreOr0(node, sc)]
    ELSE [node EXCEPT !.children[addr[1]] = SetImportance(@, Tail(addr), sc)]

\* for node in all_nodes: ...
RECURSIVE ApplyScores(_, _, _, _)
ApplyScores(tree, all_nodes, i, sc) ==
    IF i > Len(all_nodes) THEN tree
    ELSE ApplyScores(SetImportance(tree, all_nodes[i], sc), all_nodes, i + 1, sc)

----------------------------------------------------------------------------
(* The repositories the mapper is run on, with PythonAstAnalyzer as the    *)
(* only analyzer:                                                          *)
(*    a.py      class K: def m, def n;  def f: t = ...;  v = ...           *)
(*    d/                                                                   *)
(*      b.py    def g                                                      *)
(*      c.txt                                                              *)
(* under a repo_path of "." or "repo", listed in any order of the files,   *)
(* any of the files unreadable or unparsable, c.txt excluded or not.       *)

SourceA ==
    << Stmt("class", "K", << Stmt("def", "m", <<>>), Stmt("def", "n", <<>>) >>),
       Stmt("def", "f", << Stmt("assign", "t", <<>>) >>),
       Stmt("assign", "v", <<>>) >>

SourceB == << Stmt("def", "g", <<>>) >>

Entry(rel, is_dir, excluded, python, fails, source) ==
    [rel |-> rel, is_dir |-> is_dir, excluded |-> excluded, python |-> python,
     fails |-> fails, source |-> source]

RepoPaths == { <<>>, <<"repo">> }

FileNames == <<"a.py", "b.py", "c.txt">>

\* the entry of the file FileNames[k]
FileEntry(k, fails, excluded) ==
    IF k = 1 THEN Entry(<<"a.py">>, FALSE, FALSE, TRUE, fails, SourceA)
    ELSE IF k = 2 THEN Entry(<<"d", "b.py">>, FALSE, FALSE, TRUE, fails, SourceB)
    ELSE Entry(<<"d", "c.txt">>, FALSE, excluded, FALSE, fails, <<>>)

Orders ==
    { o \in [1..Len(FileNames) -> 1..Len(FileNames)] :
        \A i \in DOMAIN o, j \in DOMAIN o : o[i] = o[j] => i = j }

\* the directory d, then the files in the order o
Listing(o, fails, excluded) ==
    << Entry(<<"d">>, TRUE, FALSE, FALSE, FALSE, <<>>) >>
    \o [i \in 1..Len(FileNames) |-> FileEntry(o[i], fails[o[i]], excluded)]

Listings ==
    { Listing(o, fails, excluded) :
        o \in Orders, fails \in [1..Len(FileNames) -> BOOLEAN],
        excluded \in BOOLEAN }

\* no scorer at work
ScorerIdle ==
    /\ graph = EmptyGraph.graph
    /\ node_map = EmptyGraph.node_map
    /\ scorer_pc = "idle"
    /\ important_nodes = {}
    /\ weights = <<>>
    /\ raw_scores = <<>>
    /\ scores = <<>>
    /\ scorer = "none"
    /\ raised = "none"
    /\ history = <<>>

MapperInit ==
    /\ SerializerIdle
    /\ ScorerIdle
    /\ repo_path \in RepoPaths
    /\ listing \in Listings
    /\ root_node = <<>>
    /\ warned = <<>>
    /\ mapper_pc = "ready"
    /\ calc_result = <<>>
    /\ setattr_log = <<>>
    /\ passes = 0

\* root_node = self._analyze_repository(repo_path, exclude_patterns=...)
Analyze ==
    /\ mapper_pc = "ready"
    /\ LET r == AnalyzeRepository(repo_path, listing)
       IN  root_node' = r.root /\ warned' = r.warned
    /\ mapper_pc' = "analyzed"
    /\ UNCHANGED <<serializer_vars, scorer_vars, repo_path, listing,
                   calc_result, setattr_log, passes>>

\* a score for a path: 1, 4, 7 or 10 tenths
ScoreValue(path, seed) == ((Len(path) + seed) % 4) * 3 + 1

\* the paths of the nodes of a tree
PathsOf(tree) ==
    LET all_nodes == CollectNodes(tree, <<>>)
    IN  { NodeAt(tree, all_nodes[i]).path : i \in 1..Len(all_nodes) }

\* what importance_calculator.calculate may return: a score for every path
\* (and for one that no node has), for none, or for all but two of them
ScoreMaps(tree) ==
    {<<>>}
    \cup { [p \in PathsOf(tree) \cup {<<"ghost">>} |-> ScoreValue(p, seed)] :
             seed \in 1..2 }
    \cup { [p \in PathsOf(tree) \ {<<"a.py">>, <<"d">>} |-> ScoreValue(p, 2)] }

\* self._calculate_importance(root_node)
CalculateImportance ==
    /\ mapper_pc = "analyzed"
    /\ passes < MaxPasses
    /\ \E sc \in ScoreMaps(root_node) :
          LET all_nodes == CollectNodes(root_node, <<>>)
          IN  /\ calc_result' = sc
              /\ root_node' = ApplyScores(root_node, all_nodes, 1, sc)
              /\ setattr_log' = all_nodes
    /\ passes' = passes + 1
    /\ UNCHANGED <<serializer_vars, scorer_vars, repo_path, listing, warned,
                   mapper_pc>>

MapperNext == Analyze \/ CalculateImportance

MapperSpec == MapperInit /\ [][MapperNext]_vars

----------------------------------------------------------------------------
(* What the claims about the mapper speak about *)

\* the addresses of the nodes of the tree built
Addresses ==
    LET all_nodes == CollectNodes(root_node, <<>>)
    IN  { all_nodes[i] : i \in 1..Len(all_nodes) }

\* the names on the way from the root to the node at addr
RECURSIVE NamesTo(_, _)
NamesTo(node, addr) ==
    IF addr = <<>> THEN <<>>
    ELSE <<node.children[addr[1]].name>>
         \o NamesTo(node.children[addr[1]], Tail(addr))

\* the files of the listing that are analysed, and those of them that fail
Analysed == { i \in 1..Len(listing) : ~listing[i].is_dir /\ ~listing[i].excluded }

Failing == { i \in Analysed : listing[i].fails }

\* the listing without its first n entries' failing files
RECURSIVE WithoutFailing(_, _)
WithoutFailing(ls, n) ==
    IF n = 0 THEN <<>>
    ELSE IF ~ls[n].is_dir /\ ~ls[n].excluded /\ ls[n].fails
    THEN WithoutFailing(ls, n - 1)
    ELSE Append(WithoutFailing(ls, n - 1), ls[n])

\* the tree holds the file rel_path: a File node of that path, reached from the
\* root through the names of its parts
Holds(rel_path) ==
    \E addr \in Addresses :
       /\ NamesTo(root_node, addr) = rel_path
       /\ NodeAt(root_node, addr).node_type = "FILE"
       /\ NodeAt(root_node, addr).path = rel_path

\* C16: in the tree _analyze_repository builds no two nodes have the same
\* path: not a file and a symbol defined in it, not two symbols of one file.
C16_UniquePaths ==
    (mapper_pc = "analyzed" /\ passes = 0) =>
        \A a \in Addresses, b \in Addresses :
           a # b => NodeAt(root_node, a).path # NodeAt(root_node, b).path

\* C17: a file whose analysis fails gets a warning and is not in the tree, the
\* loop goes on, and every other file that is not excluded, before or after
\* the failing one in the listing, is in the tree, which is the tree built
\* from the listing without the failing files.
C17_FailureIsolated ==
    (mapper_pc = "analyzed" /\ passes = 0) =>
        /\ \A i \in Failing :
              /\ \E k \in 1..Len(warned) : warned[k] = listing[i].rel
              /\ \A addr \in Addresses :
                    NamesTo(root_node, addr) # listing[i].rel
        /\ Len(warned) = Cardinality(Failing)
        /\ \A i \in Analysed \ Failing : Holds(listing[i].rel)
        /\ root_node =
              AnalyzeRepository(repo_path,
                                WithoutFailing(listing, Len(listing))).root

\* a file failed between two files that did not, one of them in its directory
C17_Witness ==
    /\ mapper_pc = "analyzed"
    /\ passes = 0
    /\ \E i \in Analysed, j \in Failing, k \in Analysed :
          /\ i < j /\ j < k
          /\ ~listing[i].fails /\ ~listing[k].fails
          /\ Holds(listing[i].rel) /\ Holds(listing[k].rel)
          /\ Len(listing[j].rel) = 2
          /\ (Len(listing[i].rel) = 2 \/ Len(listing[k].rel) = 2)
    /\ Len(warned) = 1

\* a tree with every importance set to 0: the other fields and the links
RECURSIVE Strip(_)
Strip(node) ==
    [node EXCEPT !.importance = 0,
                 !.children = [i \in 1..Len(node.children) |->
                                 Strip(node.children[i])]]

\* after a pass every node has the score of its path, or 0.0, and was set once
C20_State ==
    (mapper_pc = "analyzed" /\ passes > 0) =>
        /\ \A addr \in Addresses :
              LET node == NodeAt(root_node, addr)
              IN  /\ node.importance =
                        (IF node.path \in DOMAIN calc_result
                         THEN calc_result[node.path] ELSE 0)
                  /\ Cardinality({ i \in 1..Len(setattr_log) :
                                     setattr_log[i] = addr }) = 1
        /\ \A i \in 1..Len(setattr_log) : setattr_log[i] \in Addresses

\* a pass changes the importances only
C20_Step ==
    passes' = passes + 1 => Strip(root_node') = Strip(root_node)

\* C20: after _calculate_importance every node's importance is the
\* calculator's score for its path, or 0.0 where the scores lack the path;
\* each node is assigned exactly once in a pass, a later pass replaces what an
\* earlier one set, and no other field and no parent/child link changes.
C20_ImportanceApplied == [](C20_State) /\ [][C20_Step]_vars

\* a second pass ran, some paths without a score and some with one
C20_Witness ==
    /\ passes = 2
    /\ \E a \in Addresses :
          /\ NodeAt(root_node, a).path \notin DOMAIN calc_result
          /\ NodeAt(root_node, a).importance = 0
    /\ \E b \in Addresses : NodeAt(root_node, b).importance > 0

----------------------------------------------------------------------------
(* The raw scores of ReferenceScorer, term by term: in units of 1/Den *)

\* the focus vertices the graph has
Focus == important_nodes \cap DOMAIN node_map

\* the in-edges of v that come from a focus vertex
FocusInDegree(v) ==
    Cardinality({ k \in 1..Len(graph.edges) :
                    /\ graph.edges[k].target = node_map[v]
                    /\ \E s \in Focus : graph.edges[k].source = node_map[s] })

\* in-edges * ref_weight + out-edges * outref_weight
\*   + in-edges from focus vertices * important_ref_boost
CountPart(v) ==
    ((InDegree(v) * ref_weight + OutDegree(v) * outref_weight
      + FocusInDegree(v) * important_ref_boost) * Den) \div 2

\* weights.get(v, 1.0)
WeightOf(v) == IF v \in DOMAIN weights THEN weights[v] ELSE 1

\* the directed paths from s to v, and the least number of edges on one
PathsBetween(s, v) == SimplePaths(TheGraph, node_map[s], node_map[v])

HopCount(s, v) == Min({ Len(p) - 1 : p \in PathsBetween(s, v) })

\* distance_decay ** hop count, summed over the focus vertices that reach v
HopDecay(v) ==
    Sum([s \in Focus |->
            IF s # v /\ PathsBetween(s, v) # {} THEN Decay(HopCount(s, v)) ELSE 0],
        Focus)

\* C18: with a non-empty focus set each focus vertex s adds distance_decay ** k
\* to the raw score of every vertex v it reaches, k being the least number of
\* edges on a directed path from s to v whatever the weights of the edges, and
\* nothing to a vertex it does not reach.  (Stated for v other than s.)
C18_HopCountDecay ==
    (scorer_pc = "scored" /\ scorer = "reference" /\ Focus # {}) =>
        \A v \in DOMAIN node_map :
           raw_scores[v] = CountPart(v) * WeightOf(v) + HopDecay(v)

\* C18 for graphs whose edges all weigh the same
C18_EqualWeights ==
    (\A k \in 1..Len(graph.edges) : graph.edges[k].weight = graph.edges[1].weight)
        => C18_HopCountDecay

\* C19: the weight of a vertex multiplies the reference-count part of its raw
\* score only and is applied before the distance term is added:
\* raw(v) = (in-edges * ref_weight + out-edges * outref_weight + in-edges from
\* focus vertices * important_ref_boost) * weights.get(v, 1.0) + distance
\* term(v); a weight given for an id the graph lacks is ignored.
C19_WeightBeforeDistance ==
    (scorer_pc = "scored" /\ scorer = "reference") =>
        /\ DOMAIN raw_scores = DOMAIN node_map
        /\ \E tie \in TieBreaks(TheGraph, important_nodes) :
              LET distance == CalculateDistanceScores(TheGraph, Focus, tie)
              IN  \A v \in DOMAIN node_map :
                     raw_scores[v] =
                        CountPart(v) * WeightOf(v)
                        + (IF Focus # {} THEN distance[v] ELSE 0)

\* a vertex with a weight other than 1.0, references and a distance term
C19_Witness ==
    /\ scorer_pc = "scored" /\ scorer = "reference"
    /\ \E v \in DOMAIN node_map :
          /\ v \in DOMAIN weights
          /\ weights[v] = 2
          /\ CountPart(v) > 0
          /\ raw_scores[v] > CountPart(v) * 2

----------------------------------------------------------------------------
(* The connectors of the tree format *)

\* the line is drawn with the closing connector: the last flag of its prefix
ClosingConnector(i) == lines[i].prefix[Len(lines[i].prefix)]

\* no line after the i-th renders another child of the same parent
LastEmittedChild(i) == \A j \in (i + 1)..Len(lines) : ~SiblingLines(i, j)

\* C21: in the output of TreeSerializer, partial or not, the last emitted
\* child of a node is drawn with the closing connector and every earlier
\* emitted child with the open one, also when later siblings are dropped by
\* the inclusion predicate, by max_depth or by the budget.
C21_ConnectorsWellFormed ==
    (pc = "done" /\ serializer = "tree") =>
        \A i \in 1..Len(lines) :
           lines[i].prefix # <<>> => (ClosingConnector(i) <=> LastEmittedChild(i))

\* C21 for the calls in which every child of every emitted node is emitted
C21_CompleteOutput ==
    (\A n \in NodeTable : n.parent # "" /\ Emitted(n.parent) => Emitted(n.path))
        => C21_ConnectorsWellFormed

----------------------------------------------------------------------------
(* The same tree with its children mappings filled in another order *)

Reverse(s) == [i \in 1..Len(s) |-> s[Len(s) + 1 - i]]

\* every children mapping filled in the opposite order
RECURSIVE Mirror(_)
Mirror(node) ==
    [node EXCEPT !.children =
        Reverse([i \in 1..Len(node.children) |-> Mirror(node.children[i])])]

\* the children mapping of the node at path filled in the opposite order
RECURSIVE MirrorAt(_, _)
MirrorAt(node, path) ==
    [node EXCEPT !.children =
        IF node.path = path THEN Reverse(node.children)
        ELSE [i \in 1..Len(node.children) |-> MirrorAt(node.children[i], path)]]

\* the tree itself and the trees that differ from it in insertion order only
Reorderings(tree) ==
    {tree, Mirror(tree)} \cup { MirrorAt(tree, n.path) : n \in NodeTable }

\* serialize of the serializer called name
SerializeWith(name, node, det, maxd, limit) ==
    IF name = "tree" THEN TreeSerializerSerialize(node, det, maxd, limit)
    ELSE IF name = "compact" THEN CompactSerializerSerialize(node, det, maxd, limit)
    ELSE MarkdownSerializerSerialize(node, det, maxd, limit)

\* sibling names are distinct everywhere in the tree
DistinctSiblingNames ==
    \A a \in NodeTable, b \in NodeTable :
       (a.parent = b.parent /\ a.path # b.path) => a.name # b.name

\* C22: serialize is deterministic: for the same tree, detail, max_depth and
\* token_limit every serializer returns the same text on every run, and with
\* distinct sibling names the text does not depend on the order in which any
\* node's children mapping was filled.
C22_Deterministic ==
    (pc = "done" /\ DistinctSiblingNames) =>
        \A tree \in Reorderings(root) :
           LET r == SerializeWith(serializer, tree, detail, max_depth, token_limit)
           IN  r.lines = lines /\ r.tokens_used = tokens_used

\* a tree whose mappings are not in sorted order, two siblings in the output
\* and a budget that cuts it short
C22_Witness ==
    /\ pc = "done"
    /\ DistinctSiblingNames
    /\ token_limit # None
    /\ \E i \in 1..Len(lines) : \E j \in (i + 1)..Len(lines) :
          lines[i].owner = "x#c" /\ lines[j].owner = "x#f"
    /\ ~Emitted("y/z/u")
    /\ Mirror(root) # root
    /\ SerializeWith(serializer, Mirror(root), detail, max_depth, token_limit).lines
          = lines

====
